---- MODULE Spec2Model ----
(***************************************************************************)
(* A model of src/app.py: the /api/nfl-predictions endpoint, its           *)
(* process-wide cache (cached_data, last_fetch_time) and the pipeline      *)
(* get_team_stats / get_nfl_odds -> transform_api_data ->                  *)
(* week filter -> calculate_cover_probability -> sort -> cache.            *)
(*                                                                         *)
(* Representation.                                                         *)
(*  - Python's None is the empty tuple and a present value v is <<v>>      *)
(*    (None / Some), so that None, [] and {} stay three different values.  *)
(*  - Instants are minutes since 00:00 UTC of a Monday (day 0).  An ISO    *)
(*    'commence_time' string is the pair <<day, minute of day>>: the       *)
(*    fixed-width ISO text orders as that pair does, and fromisoformat     *)
(*    turns it into an instant.                                            *)
(*  - Points (scores, lines, per-game means) are integers counting half    *)
(*    points; a probability is an integer counting hundredths of a         *)
(*    percent, and the rounded cover_probability counts tenths.  With      *)
(*    half-point inputs every product by 2.5 in the source is exact in     *)
(*    binary floating point, so the fixed-point value is the float.        *)
(***************************************************************************)
EXTENDS Integers, Sequences, FiniteSets, TLC

VARIABLES
    api_key,          \* THE_ODDS_API_KEY, read once at start-up (None when unset)
    now,              \* the UTC clock, in minutes
    cached_data,      \* global cached_data: None or Some(list of predictions)
    last_fetch_time,  \* global last_fetch_time: None or Some(instant)
    pc,               \* per request thread: where it is in get_nfl_predictions
    team_stats,       \* local team_stats of the thread's request
    odds_data,        \* local odds_data
    today,            \* local today (the clock read of line 169)
    predictions,      \* local predictions
    response,         \* what the thread's last request returned
    nreq,             \* history: number of requests begun so far
    req,              \* history: the number of the thread's request
    cached_by,        \* history: the request whose line 197 wrote cached_data
    stamped_by,       \* history: the request whose line 198 wrote last_fetch_time
    served            \* history: for a cache hit, whose time stamp was tested
                      \*          and whose payload was returned

vars == <<api_key, now, cached_data, last_fetch_time, pc, team_stats, odds_data,
          today, predictions, response, nreq, req, cached_by, stamped_by, served>>

---------------------------------------------------------------------------
(* Python values *)

None == <<>>
Some(v) == <<v>>
Val(o) == o[1]

\* Truthiness of an optional list (None and [] are both falsy).
TruthyList(o) == o # None /\ Val(o) # <<>>

\* Truthiness of an optional datetime or of an optional non-empty dict.
TruthyObj(o) == o # None

\* dict.get(key): None when the key is absent.
DictGet(d, k) == IF k \in DOMAIN d THEN Some(d[k]) ELSE None

RECURSIVE SeqSum(_)
SeqSum(s) == IF s = <<>> THEN 0 ELSE Head(s) + SeqSum(Tail(s))

\* str(int(n)) for n >= 0.
Digit(d) == <<"0", "1", "2", "3", "4", "5", "6", "7", "8", "9">>[d + 1]

RECURSIVE IntStr(_)
IntStr(n) == IF n < 10 THEN Digit(n) ELSE IntStr(n \div 10) \o Digit(n % 10)

---------------------------------------------------------------------------
(* Program constants *)

CACHE_DURATION_MINUTES == 30

\* The home-field constant 2.5 of line 137, in half points.
HomeField == 5

\* Line 140: 50 + value_difference * 2.5, in hundredths of a percent, with the
\* value difference in half points (2.5 per point is 125 hundredths per half).
BaseProbability == 5000
PerHalfPoint == 125

\* Line 141: max(5, min(95, probability)), in hundredths of a percent.
MinProbability == 500
MaxProbability == 9500

\* Line 134: return 50.0
DefaultProbability == 5000

\* timedelta(days=1) in minutes, and the weekday of Thursday (Monday = 0).
MinutesPerDay == 24 * 60
DaysPerWeek == 7
Thursday == 3

---------------------------------------------------------------------------
(* get_team_stats, lines 32-94.  A source is what nfl_data_py answers:       *)
(*   weekly    [kind, rows]  import_weekly_data([current_year]):             *)
(*             "team_rows" (frame with 'team' and 'result' columns),         *)
(*             "player_rows" (frame without them), "http404", "http_error"   *)
(*             (another HTTPError), "error" (any other exception)            *)
(*   schedule  [kind, rows]  import_schedules([last_year]): "rows", "error"  *)
(*   team_desc [kind, names] import_team_desc(): "table" (names maps         *)
(*             team_abbr to team_name), "error"                              *)
(* A team-game row is [team, points_for, points_against, spread_line,        *)
(* result]; a schedule row is [home_team, away_team, home_score, away_score, *)
(* spread_line, result].                                                     *)

\* Lines 64 and 65-68: the schedule seen from the home side, and mirrored
\* (result and spread_line negated) from the away side.
HomeRow(r) ==
    [team |-> r.home_team, points_for |-> r.home_score,
     points_against |-> r.away_score, spread_line |-> r.spread_line,
     result |-> r.result]

AwayRow(r) ==
    [team |-> r.away_team, points_for |-> r.away_score,
     points_against |-> r.home_score, spread_line |-> 0 - r.spread_line,
     result |-> 0 - r.result]

\* Lines 37-69: df_team_games, or None when the function returns None before
\* line 71 (an exception caught at line 92, or the empty schedule of line 58).
TeamGames(src) ==
    IF src.weekly.kind \in {"http_error", "error"} THEN None
    ELSE LET df_weekly == IF src.weekly.kind = "team_rows"
                          THEN src.weekly.rows ELSE <<>>
         IN  IF df_weekly # <<>> THEN Some(df_weekly)
             ELSE IF src.schedule.kind = "error" THEN None
             ELSE IF src.schedule.rows = <<>> THEN None
             ELSE LET rows == src.schedule.rows
                      home == [i \in 1..Len(rows) |-> HomeRow(rows[i])]
                      away == [i \in 1..Len(rows) |-> AwayRow(rows[i])]
                  IN  Some(home \o away)

\* Lines 73-75.
AtsResult(row) ==
    IF row.result + row.spread_line > 0 THEN "win"
    ELSE IF row.result + row.spread_line < 0 THEN "loss"
    ELSE "push"

\* Lines 77-83: one team's aggregate over its rows (means in half points).
Aggregate(rows, team) ==
    LET IsTeam(r) == r.team = team
        mine == SelectSeq(rows, IsTeam)
        points_for == [i \in 1..Len(mine) |-> mine[i].points_for]
        points_against == [i \in 1..Len(mine) |-> mine[i].points_against]
        Count(kind) == LET Is(r) == AtsResult(r) = kind
                       IN  Len(SelectSeq(mine, Is))
    IN  [ppg |-> SeqSum(points_for) \div Len(mine),
         opp_ppg |-> SeqSum(points_against) \div Len(mine),
         ats_wins |-> Count("win"),
         ats_losses |-> Count("loss"),
         ats_pushes |-> Count("push")]

\* Lines 85-91: keyed by display name; abbreviations missing from the lookup
\* are dropped.
FinalStats(rows, abbr_to_name) ==
    LET abbrs == {rows[i].team : i \in 1..Len(rows)} \cap DOMAIN abbr_to_name
        names == {abbr_to_name[a] : a \in abbrs}
        AbbrOf(n) == CHOOSE a \in abbrs : abbr_to_name[a] = n
    IN  [n \in names |-> Aggregate(rows, AbbrOf(n))]

get_team_stats(src) ==
    LET games == TeamGames(src)
    IN  IF games = None THEN None
        ELSE IF src.team_desc.kind = "error" THEN None
        ELSE Some(FinalStats(Val(games), src.team_desc.names))

---------------------------------------------------------------------------
(* get_nfl_odds, lines 96-108.  The odds source answers [kind, games]:       *)
(* "ok" with the JSON list, or "error" (a RequestException: network error    *)
(* or non-success status).                                                   *)

get_nfl_odds(answer) ==
    IF answer.kind = "error" THEN None ELSE Some(answer.games)

---------------------------------------------------------------------------
(* transform_api_data, lines 110-128.  A raw game is [id, commence_time,     *)
(* home_team, away_team, bookmakers]; a bookmaker is [markets]; a market is  *)
(* [key, outcomes]; a spreads outcome is [name, point].                      *)

\* A slip: the first bookmaker that quotes a spread, not the first listed.
FirstBookmaker_FirstQuoting(game) ==
    LET Quotes(b) == \E m \in 1..Len(b.markets) : b.markets[m].key = "spreads"
        quoting == SelectSeq(game.bookmakers, Quotes)
    IN  IF quoting # <<>> THEN Some(quoting[1]) ELSE None

\* Line 115.
FirstBookmaker(game) ==
    IF game.bookmakers # <<>> THEN Some(game.bookmakers[1]) ELSE None

\* next((x for x in ...), None), given the list of the x that pass the test.
FirstOf(hits) == IF hits = <<>> THEN None ELSE Some(hits[1])

\* Line 118.
SpreadsMarket(bookmaker) ==
    LET IsSpreads(m) == m.key = "spreads"
    IN  FirstOf(SelectSeq(bookmaker.markets, IsSpreads))

\* Line 121.
FavoriteOutcome(market) ==
    LET Negative(o) == o.point < 0
    IN  FirstOf(SelectSeq(market.outcomes, Negative))

\* Lines 115-127 for one raw game: the list of the games it appends.
TransformGame(game) ==
    LET bookmaker == FirstBookmaker(game)
    IN  IF bookmaker = None THEN <<>>
        ELSE LET spreads_market == SpreadsMarket(Val(bookmaker))
             IN  IF spreads_market = None
                    \/ Len(Val(spreads_market).outcomes) < 2 THEN <<>>
                 ELSE LET favorite_outcome == FavoriteOutcome(Val(spreads_market))
                      IN  IF favorite_outcome = None THEN <<>>
                          ELSE << [id |-> game.id,
                                   gameTime |-> game.commence_time,
                                   awayTeam |-> game.away_team,
                                   homeTeam |-> game.home_team,
                                   favorite |-> Val(favorite_outcome).name,
                                   line |-> Val(favorite_outcome).point] >>

RECURSIVE transform_api_data(_)
transform_api_data(api_games) ==
    IF api_games = <<>> THEN <<>>
    ELSE TransformGame(Head(api_games)) \o transform_api_data(Tail(api_games))

---------------------------------------------------------------------------
(* calculate_cover_probability, lines 130-141 *)

Min(a, b) == IF a < b THEN a ELSE b
Max(a, b) == IF a > b THEN a ELSE b

\* A slip: the line is not negated when the favorite is the away team.
calculate_cover_probability_NoFlip(game, all_team_stats) ==
    LET home_stats == DictGet(all_team_stats, game.homeTeam)
        away_stats == DictGet(all_team_stats, game.awayTeam)
    IN  IF ~TruthyObj(home_stats) \/ ~TruthyObj(away_stats)
        THEN DefaultProbability
        ELSE LET home_power == Val(home_stats).ppg - Val(home_stats).opp_ppg
                 away_power == Val(away_stats).ppg - Val(away_stats).opp_ppg
                 projected_spread == away_power - home_power - HomeField
                 value_difference == projected_spread - game.line
                 probability == BaseProbability + value_difference * PerHalfPoint
             IN  Max(MinProbability, Min(MaxProbability, probability))

\* Hundredths of a percent.
calculate_cover_probability(game, all_team_stats) ==
    LET home_stats == DictGet(all_team_stats, game.homeTeam)
        away_stats == DictGet(all_team_stats, game.awayTeam)
    IN  IF ~TruthyObj(home_stats) \/ ~TruthyObj(away_stats)
        THEN DefaultProbability
        ELSE LET home_power == Val(home_stats).ppg - Val(home_stats).opp_ppg
                 away_power == Val(away_stats).ppg - Val(away_stats).opp_ppg
                 projected_spread == away_power - home_power - HomeField
                 actual_line == IF game.favorite = game.homeTeam
                                THEN game.line ELSE 0 - game.line
                 value_difference == projected_spread - actual_line
                 probability == BaseProbability + value_difference * PerHalfPoint
             IN  Max(MinProbability, Min(MaxProbability, probability))

\* round(probability, 1) of line 192: hundredths to tenths of a percent, ties
\* to the even tenth (the float is exact, so a tie is a real tie).
Round1(p) ==
    LET q == p \div 10
        r == p % 10
    IN  IF r < 5 THEN q
        ELSE IF r > 5 THEN q + 1
        ELSE IF q % 2 = 0 THEN q ELSE q + 1

---------------------------------------------------------------------------
(* get_nfl_predictions, lines 165-195: the computation of a cache miss *)

\* datetime.fromisoformat(gameTime.replace('Z', '+00:00')), line 178.
FromIso(gameTime) == gameTime[1] * MinutesPerDay + gameTime[2]

\* today.date() and today.weekday(), line 171.
DateOf(instant) == instant \div MinutesPerDay
Weekday(date) == date % DaysPerWeek

\* Lines 171-174.
StartOfWeek(t) ==
    LET start_of_week_date ==
            DateOf(t) - ((Weekday(DateOf(t)) - Thursday) % DaysPerWeek)
    IN  start_of_week_date * MinutesPerDay

EndOfWeek(t) == StartOfWeek(t) + DaysPerWeek * MinutesPerDay

\* A slip: the end of the week is included.
CurrentWeekGames_ClosedEnd(all_games, t) ==
    LET InWeek(game) == /\ StartOfWeek(t) <= FromIso(game.gameTime)
                        /\ FromIso(game.gameTime) <= EndOfWeek(t)
    IN  SelectSeq(all_games, InWeek)

\* Lines 176-179.
CurrentWeekGames(all_games, t) ==
    LET InWeek(game) == /\ StartOfWeek(t) <= FromIso(game.gameTime)
                        /\ FromIso(game.gameTime) < EndOfWeek(t)
    IN  SelectSeq(all_games, InWeek)

\* A slip: "N/A" as soon as either side of the game has no stats.
AtsRecord_EitherSide(game, stats) ==
    LET favorite_stats == DictGet(stats, game.favorite)
    IN  IF \/ ~TruthyObj(favorite_stats)
           \/ game.homeTeam \notin DOMAIN stats
           \/ game.awayTeam \notin DOMAIN stats THEN "N/A"
        ELSE LET f == Val(favorite_stats)
                 wl == IntStr(f.ats_wins) \o "-" \o IntStr(f.ats_losses)
             IN  IF f.ats_pushes > 0 THEN wl \o "-" \o IntStr(f.ats_pushes)
                 ELSE wl

\* Lines 184-189.
AtsRecord(game, stats) ==
    LET favorite_stats == DictGet(stats, game.favorite)
    IN  IF ~TruthyObj(favorite_stats) THEN "N/A"
        ELSE LET f == Val(favorite_stats)
                 wl == IntStr(f.ats_wins) \o "-" \o IntStr(f.ats_losses)
             IN  IF f.ats_pushes > 0 THEN wl \o "-" \o IntStr(f.ats_pushes)
                 ELSE wl

\* Lines 183-193: the prediction of one game.
Predict(game, stats) ==
    [id |-> game.id, gameTime |-> game.gameTime, awayTeam |-> game.awayTeam,
     homeTeam |-> game.homeTeam, favorite |-> game.favorite, line |-> game.line,
     cover_probability |-> Round1(calculate_cover_probability(game, stats)),
     favorite_ats_record |-> AtsRecord(game, stats)]

\* x['gameTime'] <= y['gameTime'] on the ISO texts.
TimeLeq(a, b) == a[1] < b[1] \/ (a[1] = b[1] /\ a[2] <= b[2])

\* list.sort(key=gameTime), line 195: stable, ascending.
RECURSIVE InsertSorted(_, _)
InsertSorted(sorted, p) ==
    IF sorted = <<>> THEN <<p>>
    ELSE IF TimeLeq(sorted[Len(sorted)].gameTime, p.gameTime)
         THEN Append(sorted, p)
         ELSE Append(InsertSorted(SubSeq(sorted, 1, Len(sorted) - 1), p),
                     sorted[Len(sorted)])

RECURSIVE SortByGameTime(_)
SortByGameTime(ps) ==
    IF ps = <<>> THEN <<>>
    ELSE InsertSorted(SortByGameTime(SubSeq(ps, 1, Len(ps) - 1)), ps[Len(ps)])

\* Lines 165-195.
Predictions(stats, odds, t) ==
    LET all_games == transform_api_data(odds)
        current_week_games == CurrentWeekGames(all_games, t)
    IN  SortByGameTime([i \in 1..Len(current_week_games) |->
                           Predict(current_week_games[i], stats)])

---------------------------------------------------------------------------
(* Bounds and the answers the two external sources may give *)

\* Request threads of the server.
Threads == {"t1", "t2"}

\* Requests begun in one run, clock ticks in one run and the length of a tick.
MaxRequests == 3
MaxTicks == 2
TickMinutes == 15

\* Raw games in one answer of the odds source (PipelineSpec).
MaxGames == 2

\* The clock when the server starts: a Monday, 00:00 UTC (Spec).
StartNow == 7 * MinutesPerDay

ScheduleRow(home, away, hs, as, line) ==
    [home_team |-> home, away_team |-> away, home_score |-> hs,
     away_score |-> as, spread_line |-> line, result |-> hs - as]

TeamRow(team, pf, pa, line) ==
    [team |-> team, points_for |-> pf, points_against |-> pa,
     spread_line |-> line, result |-> pf - pa]

\* Half points: 24-20 with a line of 3, the return game 27-24 (a push against
\* the line) and 16-30 by a team the lookup does not know.  Every per-team
\* mean is a whole number of half points.
LastYearSchedule ==
    << ScheduleRow("KC", "BUF", 48, 40, 6),
       ScheduleRow("BUF", "KC", 54, 48, 0 - 6),
       ScheduleRow("DAL", "KC", 32, 60, 0 - 14) >>

ThisYearWeekly ==
    << TeamRow("KC", 54, 46, 0 - 7), TeamRow("BUF", 46, 54, 7),
       TeamRow("BUF", 62, 20, 0 - 3) >>

WeeklyAnswers ==
    { [kind |-> "team_rows", rows |-> ThisYearWeekly],
      [kind |-> "team_rows", rows |-> <<>>],
      [kind |-> "player_rows", rows |-> <<>>],
      [kind |-> "http404", rows |-> <<>>],
      [kind |-> "http_error", rows |-> <<>>],
      [kind |-> "error", rows |-> <<>>] }

ScheduleAnswers ==
    { [kind |-> "rows", rows |-> LastYearSchedule],
      [kind |-> "rows", rows |-> <<>>],
      [kind |-> "error", rows |-> <<>>] }

\* The lookup knows Kansas City and Buffalo, or only teams that never played.
TeamDescAnswers ==
    { [kind |-> "table", names |-> [a \in {"KC", "BUF"} |->
                                      IF a = "KC" THEN "Chiefs" ELSE "Bills"]],
      [kind |-> "table", names |-> [a \in {"LA"} |-> "Rams"]],
      [kind |-> "error", names |-> <<>>] }

StatsSources ==
    [weekly : WeeklyAnswers, schedule : ScheduleAnswers, team_desc : TeamDescAnswers]

Outcome(name, point) == [name |-> name, point |-> point]

H2h == [key |-> "h2h", outcomes |-> <<>>]
Spreads(outcomes) == [key |-> "spreads", outcomes |-> outcomes]
Bookmaker(markets) == [markets |-> markets]

\* A bookmaker quoting the favourite at `line` and the other side at -line.
Quote(favorite, line, other) ==
    Bookmaker(<<H2h, Spreads(<<Outcome(favorite, line), Outcome(other, 0 - line)>>)>>)

RawGame(id, time, home, away, bookmakers) ==
    [id |-> id, commence_time |-> time, home_team |-> home, away_team |-> away,
     bookmakers |-> bookmakers]

\* Monday 18:00 of the week the server starts in.
BaseTime == <<7, 1080>>

\* The shapes of the bookmaker list: a plain quote; no bookmaker; a first
\* bookmaker without markets, with the head-to-head market only, with a
\* one-outcome spread, with no negative point (each followed by a bookmaker
\* that does quote); the favourite listed second; two bookmakers that disagree.
ShapeGames ==
    { RawGame("s0", <<3, 0>>, "Chiefs", "Bills", <<Quote("Chiefs", 0 - 6, "Bills")>>),
      RawGame("s1", BaseTime, "Chiefs", "Bills", <<>>),
      RawGame("s2", BaseTime, "Chiefs", "Bills",
              <<Bookmaker(<<>>), Quote("Chiefs", 0 - 6, "Bills")>>),
      RawGame("s3", BaseTime, "Chiefs", "Bills",
              <<Bookmaker(<<H2h>>), Quote("Chiefs", 0 - 6, "Bills")>>),
      RawGame("s4", BaseTime, "Chiefs", "Bills",
              <<Bookmaker(<<Spreads(<<Outcome("Chiefs", 0 - 6)>>)>>),
                Quote("Chiefs", 0 - 6, "Bills")>>),
      RawGame("s5", BaseTime, "Chiefs", "Bills",
              <<Bookmaker(<<Spreads(<<Outcome("Chiefs", 0), Outcome("Bills", 0)>>)>>),
                Quote("Chiefs", 0 - 6, "Bills")>>),
      RawGame("s6", <<9, 1439>>, "Chiefs", "Bills",
              <<Bookmaker(<<Spreads(<<Outcome("Chiefs", 5), Outcome("Bills", 0 - 5)>>)>>)>>),
      RawGame("s7", <<10, 0>>, "Chiefs", "Bills",
              <<Quote("Chiefs", 0 - 1, "Bills"), Quote("Bills", 0 - 9, "Chiefs")>>) }

\* Teams with and without statistics (the lookup has no Cowboys and no
\* Eagles), a favourite that is neither side, and lines that reach both clamps.
TeamGamesOdds ==
    { RawGame("t1", BaseTime, "Cowboys", "Bills", <<Quote("Bills", 0 - 6, "Cowboys")>>),
      RawGame("t2", BaseTime, "Chiefs", "Cowboys", <<Quote("Cowboys", 0 - 6, "Chiefs")>>),
      RawGame("t3", BaseTime, "Chiefs", "Bills", <<Quote("Eagles", 0 - 6, "Bills")>>),
      RawGame("t4", BaseTime, "Chiefs", "Bills", <<Quote("Chiefs", 0 - 60, "Bills")>>),
      RawGame("t5", BaseTime, "Chiefs", "Bills", <<Quote("Bills", 0 - 60, "Chiefs")>>) }

\* Kick-offs a minute before the first Thursday and at the last one.
TimedGames ==
    { RawGame("k1", <<2, 1439>>, "Chiefs", "Bills", <<Quote("Chiefs", 0 - 6, "Bills")>>),
      RawGame("k5", <<17, 0>>, "Chiefs", "Bills", <<Quote("Chiefs", 0 - 6, "Bills")>>) }

RawGames == ShapeGames \cup TeamGamesOdds \cup TimedGames

SeqsUpTo(S, n) == UNION {[1..k -> S] : k \in 0..n}

\* PipelineSpec: every list of at most MaxGames raw games, or a failure.
PipelineOddsAnswers ==
    {[kind |-> "error", games |-> <<>>]}
    \cup {[kind |-> "ok", games |-> g] : g \in SeqsUpTo(RawGames, MaxGames)}

\* Spec: a failure, no game listed, a game of this week, a game of next week.
ServerOddsAnswers ==
    { [kind |-> "error", games |-> <<>>],
      [kind |-> "ok", games |-> <<>>],
      [kind |-> "ok", games |-> <<RawGame("s0", BaseTime, "Chiefs", "Bills",
                                          <<Quote("Chiefs", 0 - 6, "Bills")>>)>>],
      [kind |-> "ok", games |-> <<RawGame("k4", <<10, 0>>, "Chiefs", "Bills",
                                          <<Quote("Chiefs", 0 - 6, "Bills")>>)>>] }

\* PipelineSpec: the clock of the one request (Thursday 00:00, Sunday noon,
\* Wednesday 23:59, the next Thursday 00:00).
PipelineNows ==
    {FromIso(<<3, 0>>), FromIso(<<6, 720>>), FromIso(<<9, 1439>>), FromIso(<<10, 0>>)}

\* Spec: the weekly data is not there yet (404) or the fetch fails; last
\* year's schedule and the lookup are in order.
ServerStatsSources ==
    {src \in StatsSources :
        /\ src.weekly.kind \in {"http404", "http_error"}
        /\ src.schedule = [kind |-> "rows", rows |-> LastYearSchedule]
        /\ src.team_desc.kind = "table" /\ "KC" \in DOMAIN src.team_desc.names}

---------------------------------------------------------------------------
(* The server *)

NoResponse == [status |-> 0, body |-> None]

\* A slip: the last payload is served when the refresh fails.
Abort_ServeStale(status) ==
    IF cached_data # None THEN [status |-> 200, body |-> cached_data]
    ELSE [status |-> status, body |-> None]

\* abort(status, description=...), lines 156 and 163: an error body, no payload.
Abort(status) == [status |-> status, body |-> None]
NotServed == [stamp_by |-> 0, payload_by |-> 0]

Init ==
    /\ api_key \in {None, Some("key")}
    /\ now = StartNow
    /\ cached_data = None
    /\ last_fetch_time = None
    /\ pc = [t \in Threads |-> "idle"]
    /\ team_stats = [t \in Threads |-> None]
    /\ odds_data = [t \in Threads |-> None]
    /\ today = [t \in Threads |-> None]
    /\ predictions = [t \in Threads |-> None]
    /\ response = [t \in Threads |-> NoResponse]
    /\ nreq = 0
    /\ req = [t \in Threads |-> 0]
    /\ cached_by = 0
    /\ stamped_by = 0
    /\ served = [t \in Threads |-> NotServed]

\* The clock advances between any two steps.
Tick ==
    /\ now + TickMinutes <= StartNow + MaxTicks * TickMinutes
    /\ now' = now + TickMinutes
    /\ UNCHANGED <<api_key, cached_data, last_fetch_time, pc, team_stats, odds_data,
                   today, predictions, response, nreq, req, cached_by, stamped_by,
                   served>>

\* A request arrives: line 149, the first operand of the `and` (cached_data).
Begin(t) ==
    /\ pc[t] = "idle"
    /\ nreq < MaxRequests
    /\ nreq' = nreq + 1
    /\ req' = [req EXCEPT ![t] = nreq + 1]
    /\ team_stats' = [team_stats EXCEPT ![t] = None]
    /\ odds_data' = [odds_data EXCEPT ![t] = None]
    /\ today' = [today EXCEPT ![t] = None]
    /\ predictions' = [predictions EXCEPT ![t] = None]
    /\ response' = [response EXCEPT ![t] = NoResponse]
    /\ served' = [served EXCEPT ![t] = NotServed]
    /\ pc' = [pc EXCEPT ![t] = IF TruthyList(cached_data) THEN "check_time"
                                ELSE "fetch_stats"]
    /\ UNCHANGED <<api_key, now, cached_data, last_fetch_time, cached_by, stamped_by>>

\* Line 149, the rest: last_fetch_time and the age of the entry.
CacheIsFresh ==
    /\ TruthyObj(last_fetch_time)
    /\ now - Val(last_fetch_time) < CACHE_DURATION_MINUTES

CheckTime(t) ==
    /\ pc[t] = "check_time"
    /\ pc' = [pc EXCEPT ![t] = IF CacheIsFresh THEN "return_cached"
                                                ELSE "fetch_stats"]
    /\ served' = [served EXCEPT ![t].stamp_by = IF CacheIsFresh THEN stamped_by ELSE 0]
    /\ UNCHANGED <<api_key, now, cached_data, last_fetch_time, team_stats, odds_data,
                   today, predictions, response, nreq, req, cached_by, stamped_by>>

\* Lines 150-151: return jsonify(cached_data).
ReturnCached(t) ==
    /\ pc[t] = "return_cached"
    /\ response' = [response EXCEPT ![t] = [status |-> 200, body |-> cached_data]]
    /\ served' = [served EXCEPT ![t].payload_by = cached_by]
    /\ pc' = [pc EXCEPT ![t] = "idle"]
    /\ UNCHANGED <<api_key, now, cached_data, last_fetch_time, team_stats, odds_data,
                   today, predictions, nreq, req, cached_by, stamped_by>>

\* Lines 153-158 with nfl_data_py answering src: the key check (abort 500)
\* and team_stats = get_team_stats().
FetchStatsFrom(t, src) ==
    /\ pc[t] = "fetch_stats"
    /\ IF ~TruthyObj(api_key)
       THEN /\ response' = [response EXCEPT ![t] = Abort(500)]
            /\ pc' = [pc EXCEPT ![t] = "idle"]
            /\ UNCHANGED team_stats
       ELSE /\ team_stats' = [team_stats EXCEPT ![t] = get_team_stats(src)]
            /\ pc' = [pc EXCEPT ![t] = "fetch_odds"]
            /\ UNCHANGED response
    /\ UNCHANGED <<api_key, now, cached_data, last_fetch_time, odds_data, today,
                   predictions, nreq, req, cached_by, stamped_by, served>>

\* Lines 159-195 with the odds source answering `answer`: odds_data =
\* get_nfl_odds(), the 503 test and the computation of the predictions.
ComputeFrom(t, answer) ==
    /\ pc[t] = "fetch_odds"
    /\ odds_data' = [odds_data EXCEPT ![t] = get_nfl_odds(answer)]
    /\ IF team_stats[t] = None \/ ~TruthyList(odds_data'[t])
       THEN /\ response' = [response EXCEPT ![t] = Abort(503)]
            /\ pc' = [pc EXCEPT ![t] = "idle"]
            /\ UNCHANGED <<today, predictions>>
       ELSE /\ today' = [today EXCEPT ![t] = Some(now)]
            /\ predictions' = [predictions EXCEPT ![t] =
                  Some(Predictions(Val(team_stats[t]), Val(odds_data'[t]), now))]
            /\ pc' = [pc EXCEPT ![t] = "store_data"]
            /\ UNCHANGED response
    /\ UNCHANGED <<api_key, now, cached_data, last_fetch_time, team_stats, nreq, req,
                   cached_by, stamped_by, served>>

FetchStats(t) == \E src \in ServerStatsSources : FetchStatsFrom(t, src)

Compute(t) == \E answer \in ServerOddsAnswers : ComputeFrom(t, answer)

\* Line 197: cached_data = predictions.
StoreData(t) ==
    /\ pc[t] = "store_data"
    /\ cached_data' = predictions[t]
    /\ cached_by' = req[t]
    /\ pc' = [pc EXCEPT ![t] = "store_time"]
    /\ UNCHANGED <<api_key, now, last_fetch_time, team_stats, odds_data, today,
                   predictions, response, nreq, req, stamped_by, served>>

\* Lines 198-200: last_fetch_time = now; return jsonify(predictions).
StoreTime(t) ==
    /\ pc[t] = "store_time"
    /\ last_fetch_time' = Some(now)
    /\ stamped_by' = req[t]
    /\ response' = [response EXCEPT ![t] = [status |-> 200, body |-> predictions[t]]]
    /\ pc' = [pc EXCEPT ![t] = "idle"]
    /\ UNCHANGED <<api_key, now, cached_data, team_stats, odds_data, today,
                   predictions, nreq, req, cached_by, served>>

Next ==
    \/ Tick
    \/ \E t \in Threads :
          \/ Begin(t)
          \/ CheckTime(t)
          \/ ReturnCached(t)
          \/ FetchStats(t)
          \/ Compute(t)
          \/ StoreData(t)
          \/ StoreTime(t)

Spec == Init /\ [][Next]_vars

---------------------------------------------------------------------------
(* One request on an empty cache, the sources answering anything in bounds *)

PipelineInit ==
    /\ api_key \in {None, Some("key")}
    /\ now \in PipelineNows
    /\ cached_data = None
    /\ last_fetch_time = None
    /\ pc = [t \in Threads |-> "idle"]
    /\ team_stats = [t \in Threads |-> None]
    /\ odds_data = [t \in Threads |-> None]
    /\ today = [t \in Threads |-> None]
    /\ predictions = [t \in Threads |-> None]
    /\ response = [t \in Threads |-> NoResponse]
    /\ nreq = 0
    /\ req = [t \in Threads |-> 0]
    /\ cached_by = 0
    /\ stamped_by = 0
    /\ served = [t \in Threads |-> NotServed]

PipelineBegin == nreq = 0 /\ Begin("t1")

PipelineFetchStats == \E src \in StatsSources : FetchStatsFrom("t1", src)

PipelineCompute == \E answer \in PipelineOddsAnswers : ComputeFrom("t1", answer)

PipelineNext ==
    \/ PipelineBegin
    \/ PipelineFetchStats
    \/ PipelineCompute
    \/ StoreData("t1")
    \/ StoreTime("t1")

PipelineSpec == PipelineInit /\ [][PipelineNext]_vars

---------------------------------------------------------------------------
(* Properties *)

\* A thread whose request has computed its predictions (lines 165-195 ran).
Computed(t) == predictions[t] # None

\* A thread whose request has ended.
Ended(t) == pc[t] = "idle" /\ req[t] > 0

\* The step in which t's request decides to fetch (a miss at line 149).
Misses(t) == pc[t] \in {"idle", "check_time"} /\ pc'[t] = "fetch_stats"

\* The step in which t's request is aborted (lines 156 and 163).
Fails(t) == pc[t] \in {"fetch_stats", "fetch_odds"} /\ pc'[t] = "idle"

\* C1: once a computation has been stored at time T (last_fetch_time), no
\* request deciding at a time t with t - T < 30 minutes goes on to fetch,
\* whatever payload was stored.
C1_FreshEntryIsReused ==
    [][\A t \in Threads :
          Misses(t) => ~(/\ last_fetch_time # None
                         /\ now - Val(last_fetch_time) < CACHE_DURATION_MINUTES)]_vars

\* C2: a request answered from the cache returns the payload of the refresh
\* whose time stamp it tested: never the payload of one refresh with the time
\* stamp of another.
C2_EntryReplacedAtomically ==
    \A t \in Threads :
        (response[t].status = 200 /\ served[t].payload_by # 0)
            => served[t].payload_by = served[t].stamp_by

\* C3: a request that fails after a miss answers 500 or 503 without any
\* payload and leaves cached_data and last_fetch_time as they are; and a
\* request that finds no usable entry (then, as before the failure) goes on
\* to fetch.
C3_FailureLeavesCacheAndRetries ==
    [][\A t \in Threads :
          /\ Fails(t) => /\ response'[t].status \in {500, 503}
                         /\ response'[t].body = None
                         /\ cached_data' = cached_data
                         /\ last_fetch_time' = last_fetch_time
          /\ (pc[t] = "idle" /\ pc'[t] # "idle" /\ ~TruthyList(cached_data))
                => pc'[t] = "fetch_stats"
          /\ (pc[t] = "check_time" /\ pc'[t] # "check_time" /\ ~CacheIsFresh)
                => pc'[t] = "fetch_stats"]_vars

\* C3 witness: a refresh of an expired entry has failed with 503, the old
\* payload is still cached, and a later request is fetching again.
C3_Witness ==
    \E t, u \in Threads :
        /\ Ended(t) /\ response[t].status = 503
        /\ TruthyList(cached_data) /\ last_fetch_time # None
        /\ now - Val(last_fetch_time) >= CACHE_DURATION_MINUTES
        /\ req[u] > req[t] /\ pc[u] = "fetch_stats"

\* C4: with team stats available, a successful odds answer listing no game
\* ends in a 200 response with an empty prediction list.
C4_EmptyOddsSucceeds ==
    \A t \in Threads :
        (Ended(t) /\ team_stats[t] # None /\ odds_data[t] = Some(<<>>))
            => (response[t].status = 200 /\ response[t].body = Some(<<>>))

NoStats(stats, team) == team \notin DOMAIN stats

\* C5 as stated: a prediction with a side that has no team stats has
\* cover_probability 50.0 and favorite_ats_record "N/A".
C5_MissingTeamGivesNA ==
    \A t \in Threads : Computed(t) =>
        \A i \in 1..Len(Val(predictions[t])) :
            LET p == Val(predictions[t])[i]
                stats == Val(team_stats[t])
            IN  (NoStats(stats, p.homeTeam) \/ NoStats(stats, p.awayTeam))
                    => (p.cover_probability = 500 /\ p.favorite_ats_record = "N/A")

\* C5 amended: such a prediction has cover_probability 50.0, and its
\* favorite_ats_record is "N/A" exactly when the favorite has no team stats.
C5_MissingTeamGivesFifty ==
    \A t \in Threads : Computed(t) =>
        /\ response[t].status = 200 => response[t].body = predictions[t]
        /\ \A i \in 1..Len(Val(predictions[t])) :
            LET p == Val(predictions[t])[i]
                stats == Val(team_stats[t])
            IN  (NoStats(stats, p.homeTeam) \/ NoStats(stats, p.awayTeam))
                    => /\ p.cover_probability = 500
                       /\ p.favorite_ats_record = "N/A" <=> NoStats(stats, p.favorite)

\* C5 witness: a returned payload with a game whose home side has no stats
\* and whose favorite has (a record is shown), and a game whose favorite has
\* none.
C5_Witness ==
    \E t \in Threads :
        /\ Ended(t) /\ response[t].status = 200 /\ Computed(t)
        /\ \E i, j \in 1..Len(Val(response[t].body)) :
            LET p == Val(response[t].body)[i]
                q == Val(response[t].body)[j]
                stats == Val(team_stats[t])
            IN  /\ NoStats(stats, p.homeTeam) /\ ~NoStats(stats, p.favorite)
                /\ p.cover_probability = 500 /\ p.favorite_ats_record # "N/A"
                /\ NoStats(stats, q.favorite) /\ q.favorite = q.awayTeam
                /\ q.cover_probability = 500 /\ q.favorite_ats_record = "N/A"

\* clamp(50 + 2.5 * ((awayPower - homePower - 2.5) - actualLine), 5, 95) in
\* hundredths of a percent, the points in half points.
ClaimedProbability(game, stats) ==
    LET homePower == stats[game.homeTeam].ppg - stats[game.homeTeam].opp_ppg
        awayPower == stats[game.awayTeam].ppg - stats[game.awayTeam].opp_ppg
        actualLine == IF game.favorite = game.homeTeam THEN game.line
                      ELSE 0 - game.line
        raw == 5000 + 125 * ((awayPower - homePower - 5) - actualLine)
    IN  IF raw < 500 THEN 500 ELSE IF raw > 9500 THEN 9500 ELSE raw

InRange(payload) ==
    \A i \in 1..Len(payload) :
        payload[i].cover_probability >= 50 /\ payload[i].cover_probability <= 950

\* C6: for every normalized game whose two teams have stats,
\* calculate_cover_probability returns the clamped formula; and every
\* cover_probability computed, returned or cached lies in [5, 95].
C6_ProbabilityIsClampedFormula ==
    /\ \A t \in Threads : Computed(t) =>
        LET stats == Val(team_stats[t])
            games == transform_api_data(Val(odds_data[t]))
        IN  /\ \A i \in 1..Len(games) :
                (~NoStats(stats, games[i].homeTeam) /\ ~NoStats(stats, games[i].awayTeam))
                    => calculate_cover_probability(games[i], stats)
                         = ClaimedProbability(games[i], stats)
            /\ InRange(Val(predictions[t]))
            /\ response[t].body # None => InRange(Val(response[t].body))
    /\ cached_data # None => InRange(Val(cached_data))

\* C6 witness: a cached payload with a probability clamped to 95, one clamped
\* to 5, both for games whose two teams have stats.
C6_Witness ==
    /\ cached_data # None
    /\ \E t \in Threads : Computed(t) /\ cached_data = predictions[t] /\
        \E i, j \in 1..Len(Val(cached_data)) :
            LET p == Val(cached_data)[i]
                q == Val(cached_data)[j]
                stats == Val(team_stats[t])
            IN  /\ {p.homeTeam, p.awayTeam, q.homeTeam, q.awayTeam} \subseteq DOMAIN stats
                /\ p.cover_probability = 950 /\ q.cover_probability = 50
                /\ p.favorite = p.homeTeam /\ q.favorite = q.awayTeam

\* 00:00 UTC of the most recent Thursday on or before the instant t.
ClaimedStartOfWeek(t) ==
    LET date == t \div (24 * 60)
        thursday == CHOOSE d \in (date - 6)..date : d % 7 = 3
    IN  thursday * 24 * 60

InClaimedWeek(game, t) ==
    LET g == game.gameTime[1] * 24 * 60 + game.gameTime[2]
    IN  ClaimedStartOfWeek(t) <= g /\ g < ClaimedStartOfWeek(t) + 7 * 24 * 60

GameOf(p) ==
    [id |-> p.id, gameTime |-> p.gameTime, awayTeam |-> p.awayTeam,
     homeTeam |-> p.homeTeam, favorite |-> p.favorite, line |-> p.line]

\* C7: the predictions of a computing request are exactly the normalized games
\* that start in [startOfWeek, startOfWeek + 7 days), each as often as it is
\* listed.
C7_ExactlyTheCurrentWeek ==
    \A t \in Threads : Computed(t) =>
        LET games == transform_api_data(Val(odds_data[t]))
            preds == Val(predictions[t])
            clock == Val(today[t])
        IN  /\ \A i \in 1..Len(preds) : InClaimedWeek(preds[i], clock)
            /\ \A i \in 1..Len(games) :
                LET Same(g) == g = games[i]
                    SameP(p) == GameOf(p) = games[i]
                IN  InClaimedWeek(games[i], clock)
                        => Len(SelectSeq(preds, SameP)) = Len(SelectSeq(games, Same))
            /\ LET InWeek(g) == InClaimedWeek(g, clock)
               IN  Len(preds) = Len(SelectSeq(games, InWeek))

\* C7 witness: a request computed on a Wednesday at 23:59 with a game at
\* exactly startOfWeek, which is predicted, and a game at exactly endOfWeek,
\* which is not.
C7_Witness ==
    \E t \in Threads :
        /\ Computed(t) /\ Ended(t)
        /\ today[t] = Some(9 * 24 * 60 + 1439)
        /\ LET games == transform_api_data(Val(odds_data[t]))
               preds == Val(predictions[t])
           IN  /\ \E i \in 1..Len(games) : games[i].gameTime = <<3, 0>>
               /\ \E i \in 1..Len(games) : games[i].gameTime = <<10, 0>>
               /\ Len(preds) = 1 /\ preds[1].gameTime = <<3, 0>>

\* A raw game whose first bookmaker has a spreads market with at least two
\* outcomes, one of them with a negative point.
Quoted(raw) ==
    /\ Len(raw.bookmakers) >= 1
    /\ \E m \in 1..Len(raw.bookmakers[1].markets) :
        LET market == raw.bookmakers[1].markets[m]
        IN  /\ market.key = "spreads"
            /\ Len(market.outcomes) >= 2
            /\ \E o \in 1..Len(market.outcomes) : market.outcomes[o].point < 0

\* C8: transform_api_data emits one game for each quoted raw game, in order,
\* and none for any other; the predictions are of quoted raw games only; and
\* an answer with unquoted games is no error.
C8_OneGamePerQuotedRawGame ==
    \A t \in Threads : odds_data[t] # None =>
        LET raw == Val(odds_data[t])
            games == transform_api_data(raw)
            quoted == SelectSeq(raw, Quoted)
        IN  /\ Len(games) = Len(quoted)
            /\ \A i \in 1..Len(games) :
                /\ games[i].id = quoted[i].id
                /\ games[i].gameTime = quoted[i].commence_time
                /\ games[i].homeTeam = quoted[i].home_team
                /\ games[i].awayTeam = quoted[i].away_team
            /\ Computed(t) =>
                \A i \in 1..Len(Val(predictions[t])) :
                    \E k \in 1..Len(quoted) : quoted[k].id = Val(predictions[t])[i].id
            /\ (Ended(t) /\ team_stats[t] # None /\ raw # <<>>)
                    => response[t].status = 200

\* C8 witness: a request answered 200 with one prediction from an answer that
\* lists a raw game whose first bookmaker has no negative point (a later
\* bookmaker has) before a quoted one.
C8_Witness ==
    \E t \in Threads :
        /\ Ended(t) /\ response[t].status = 200
        /\ Len(Val(odds_data[t])) = 2
        /\ Val(odds_data[t])[1].id = "s5"
        /\ Len(Val(odds_data[t])[1].bookmakers) = 2
        /\ Quoted(Val(odds_data[t])[2])
        /\ Len(Val(response[t].body)) = 1

FavoriteIsASide(payload) ==
    \A i \in 1..Len(payload) :
        payload[i].favorite \in {payload[i].awayTeam, payload[i].homeTeam}

\* C9: every prediction computed, returned or cached has a favorite that is
\* its away team or its home team.
C9_FavoriteIsASide ==
    /\ \A t \in Threads :
        /\ Computed(t) => FavoriteIsASide(Val(predictions[t]))
        /\ response[t].body # None => FavoriteIsASide(Val(response[t].body))
    /\ cached_data # None => FavoriteIsASide(Val(cached_data))

\* C10: what get_team_stats returned to a request is None or a mapping with at
\* least one team, never an empty mapping.
C10_StatsNoneOrNonEmpty ==
    \A t \in Threads :
        team_stats[t] # None => DOMAIN Val(team_stats[t]) # {}

====
